---- MODULE Spec2Model ----
(***************************************************************************)
(* Model of pkg/env/env.go: the test environment (testEnv) that sequences  *)
(* Setup / BeforeTest / AfterTest / Finish actions around feature tests.   *)
(*                                                                         *)
(* A context is modelled by an integer: context.Background() is 0 and      *)
(* every user function that succeeds maps the context v to v+1, so a       *)
(* context value counts the functions that produced it.  A user function   *)
(* is opaque: whether it succeeds or fails is chosen when it is called.    *)
(*                                                                         *)
(* The action list of a testEnv is a Go slice: a backing array on a heap,  *)
(* a length and a capacity, so that two environments sharing an array can  *)
(* be told from two environments holding equal lists.                      *)
(*                                                                         *)
(* Spec runs one environment through Run and Test; SpecDerive registers on *)
(* an environment and on the one WithContext derives from it; SpecNil is   *)
(* Spec with environments built by NewWithContext or holding no context,   *)
(* with WithContext and with test functions that run without Run.          *)
(***************************************************************************)
EXTENDS Integers, Sequences, FiniteSets

\* Bound: registered functions + Test calls + feature steps of one scenario.
MaxSize == 4

\* Bound: a registration call passes at most this many functions.
MaxArgs == 2

-----------------------------------------------------------------------------
(* Values *)

NilCtx == 0 - 1
Background == 0

Nil == <<>>

roleSetup == "roleSetup"
roleBefore == "roleBefore"
roleAfter == "roleAfter"
roleFinish == "roleFinish"

LevelSetup == "LevelSetup"
LevelAssess == "LevelAssess"
LevelTeardown == "LevelTeardown"

Levels == {LevelSetup, LevelAssess, LevelTeardown}

\* Names are strings of letters; a filter is a literal pattern.
FeatureNames == << <<"F">>, <<"G">> >>
StepNames == << <<"a">>, <<"b">> >>

\* Test call k of the suite is on a feature named FeatureName(k).
FeatureName(k) == FeatureNames[((k - 1) % Len(FeatureNames)) + 1]

\* Step p of a feature's step list is named StepName(p).
StepName(p) == StepNames[((p - 1) % Len(StepNames)) + 1]

\* The -feature and -assess flags: no filter, or a pattern.
FeatureFilters == {Nil, <<"G">>}
AssessFilters == {Nil, <<"b">>}

\* regexp.MatchString for a literal pattern: the pattern occurs in s.
MatchString(re, s) ==
    \E k \in 1..(Len(s) - Len(re) + 1) : SubSeq(s, k, k + Len(re) - 1) = re

\* A feature: a name and an ordered list of steps (level, name, function).
RECURSIVE StepLists(_)
StepLists(n) ==
    IF n = 0 THEN {<<>>}
    ELSE LET shorter == StepLists(n - 1)
         IN  shorter \cup
             { Append(s, [level |-> l, name |-> StepName(Len(s) + 1), fn |-> Len(s) + 1]) :
                 s \in {x \in shorter : Len(x) = n - 1}, l \in Levels }

Features(k, n) == { [name |-> FeatureName(k), steps |-> s] : s \in StepLists(n) }

-----------------------------------------------------------------------------
VARIABLES
    e,         \* the testEnv: [ctx, cfg, actions]
    nextFn,    \* identity of the next function value passed to a registration
    pc,        \* position of TestMain: main, setup, running, finish, done, exited, panic;
               \* direct: the test functions run without e.Run
    batch,     \* Run's local slice: setups, then finishes
    i,         \* Run's loop index into batch
    tpc,       \* position of the current Test call: before, after; idle: none
    tbatch,    \* Test's local slice: befores, then afters (of the latest call)
    j,         \* Test's loop index into tbatch (of the latest call)
    feature,   \* the feature of the latest Test call
    ntests,    \* Test calls started so far
    exitCode,  \* Run's local: the result of m.Run
    returned,  \* what Run returned, or the status the process exited with
    calls,     \* history: every user function called, in order
    failed,    \* history: reporting scopes on which a fatal failure was reported
    skipped,   \* history: reporting scopes marked skipped
    size,      \* registered functions + Test calls + feature steps so far
    heap,      \* the backing arrays of the action slices, by allocation order
    d,         \* the testEnv returned by e.WithContext, NoEnv before the call
    regs,      \* history: the actions registered on e and on d, in call order,
               \* and the context WithContext was given
    noop       \* history: the latest call was a registration of zero functions

vars == <<e, nextFn, pc, batch, i, tpc, tbatch, j, feature, ntests, exitCode,
          returned, calls, failed, skipped, size, heap, d, regs, noop>>

NoCode == 0 - 1
NoFeature == [name |-> <<>>, steps |-> <<>>]

\* A reporting scope: the test (depth 0), its feature sub-scope (depth 1), or
\* the sub-scope of the assessment at position step of the feature (depth 2).
Scope(k, depth, step) == [test |-> k, depth |-> depth, step |-> step]

\* One call of a user function.
Call(k, role, fn, in, ok) == [test |-> k, role |-> role, fn |-> fn, in |-> in, ok |-> ok]

-----------------------------------------------------------------------------
(* Registration and role filtering *)

Action(role, funcs) == [role |-> role, funcs |-> funcs]

\* A slice of actions: a backing array of the heap (0: none), a length and a
\* capacity.  The nil slice is the value of testEnv.actions after construction.
NilSlice == [arr |-> 0, len |-> 0, cap |-> 0]

\* No environment: what a call that produced no testEnv leaves.
NoEnv == [ctx |-> NilCtx, cfg |-> Nil, actions |-> NilSlice]

\* The zero value that fills the cells of a new array beyond the length.
zeroAction == [role |-> "", funcs |-> <<>>]

\* The elements of slice s in heap h: s[0:len(s)].
View(h, s) == IF s.len = 0 THEN <<>> ELSE SubSeq(h[s.arr], 1, s.len)

\* The capacity append gives the new array when the old one is too small.
growslice(oldCap, needed) ==
    IF needed > 2 * oldCap THEN needed ELSE 2 * oldCap

\* append(s, xs...): in place when the capacity suffices, otherwise into a
\* new array that receives a copy of the elements of s.
append(h, s, xs) ==
    IF Len(xs) = 0 THEN [slice |-> s, heap |-> h]
    ELSE IF s.len + Len(xs) <= s.cap
    THEN [slice |-> [s EXCEPT !.len = s.len + Len(xs)],
          heap |-> [h EXCEPT ![s.arr] =
                       [p \in 1..s.cap |->
                           IF p > s.len /\ p <= s.len + Len(xs)
                           THEN xs[p - s.len] ELSE @[p]]]]
    ELSE LET newCap == growslice(s.cap, s.len + Len(xs))
             elems == View(h, s) \o xs
         IN  [slice |-> [arr |-> Len(h) + 1, len |-> Len(elems), cap |-> newCap],
              heap |-> Append(h, [p \in 1..newCap |->
                           IF p <= Len(elems) THEN elems[p] ELSE zeroAction])]

\* The action list of an environment, as the code reads it.
Actions(env) == View(heap, env.actions)

\* Faulty variant of Registered1: the new action is put first.
Registered1First(env, role, funcs) ==
    LET r == append(heap, NilSlice, <<Action(role, funcs)>> \o Actions(env))
    IN  [env |-> [env EXCEPT !.actions = r.slice], heap |-> r.heap]

\* The result of a registration: the environment returned and the heap.
Registered1(env, role, funcs) ==
    LET r == append(heap, env.actions, <<Action(role, funcs)>>)
    IN  [env |-> [env EXCEPT !.actions = r.slice], heap |-> r.heap]

\* Faulty variant of Setup: the number of functions is not tested.
SetupAlways(env, funcs) == Registered1(env, roleSetup, funcs)

Setup(env, funcs) ==
    IF Len(funcs) = 0 THEN [env |-> env, heap |-> heap]
    ELSE Registered1(env, roleSetup, funcs)

BeforeTest(env, funcs) ==
    IF Len(funcs) = 0 THEN [env |-> env, heap |-> heap]
    ELSE Registered1(env, roleBefore, funcs)

AfterTest(env, funcs) ==
    IF Len(funcs) = 0 THEN [env |-> env, heap |-> heap]
    ELSE Registered1(env, roleAfter, funcs)

Finish(env, funcs) ==
    IF Len(funcs) = 0 THEN [env |-> env, heap |-> heap]
    ELSE Registered1(env, roleFinish, funcs)

\* Faulty variant of WithContext: the new environment shares the action slice.
WithContextShares(env, ctx) ==
    IF ctx = NilCtx THEN [panic |-> TRUE, env |-> NoEnv, heap |-> heap]
    ELSE [panic |-> FALSE, heap |-> heap,
          env |-> [ctx |-> ctx, cfg |-> env.cfg, actions |-> env.actions]]

\* Faulty variant of WithContext: the actions are not copied.
WithContextEmpty(env, ctx) ==
    IF ctx = NilCtx THEN [panic |-> TRUE, env |-> NoEnv, heap |-> heap]
    ELSE [panic |-> FALSE, heap |-> heap,
          env |-> [ctx |-> ctx, cfg |-> env.cfg, actions |-> NilSlice]]

\* e.WithContext(ctx): panics on a nil context; otherwise a new testEnv with
\* the context, the configuration of e and the actions of e appended to its
\* own nil slice.
WithContext(env, ctx) ==
    IF ctx = NilCtx THEN [panic |-> TRUE, env |-> NoEnv, heap |-> heap]
    ELSE LET r == append(heap, NilSlice, Actions(env))
         IN  [panic |-> FALSE, heap |-> r.heap,
              env |-> [ctx |-> ctx, cfg |-> env.cfg, actions |-> r.slice]]

\* Faulty variant of actionsByRoleFrom: a match is put in front of the result.
RECURSIVE actionsByRoleReversed(_, _, _, _)
actionsByRoleReversed(actions, r, n, result) ==
    IF n > Len(actions) THEN result
    ELSE actionsByRoleReversed(actions, r, n + 1,
             IF actions[n].role = r THEN <<actions[n]>> \o result ELSE result)

\* The loop of getActionsByRole over e.actions, from position n on.
RECURSIVE actionsByRoleFrom(_, _, _, _)
actionsByRoleFrom(actions, r, n, result) ==
    IF n > Len(actions) THEN result
    ELSE actionsByRoleFrom(actions, r, n + 1,
             IF actions[n].role = r THEN Append(result, actions[n]) ELSE result)

\* Faulty variant of getActionsByRole: the role is not compared.
getActionsAnyRole(env, r) == Actions(env)

getActionsByRole(env, r) ==
    IF env.actions = NilSlice THEN <<>>
    ELSE actionsByRoleFrom(Actions(env), r, 1, <<>>)

GetSetupActions(env) == getActionsByRole(env, roleSetup)
GetBeforeActions(env) == getActionsByRole(env, roleBefore)
GetAfterActions(env) == getActionsByRole(env, roleAfter)
GetFinishActions(env) == getActionsByRole(env, roleFinish)

-----------------------------------------------------------------------------
(* Running an action *)

\* A user function that succeeds returns a new context.
Apply(ctx) == ctx + 1

\* action.run from function n on; function failAt (0: none) returns an error.
\* acc is [ctx, err, calls]: the context so far, the error, the calls made.
RECURSIVE runFrom(_, _, _, _, _)
runFrom(a, k, failAt, n, acc) ==
    IF n > Len(a.funcs) THEN acc
    ELSE IF n = failAt
         THEN [acc EXCEPT !.err = TRUE,
                          !.calls = Append(@, Call(k, a.role, a.funcs[n], acc.ctx, FALSE))]
         ELSE runFrom(a, k, failAt, n + 1,
                      [acc EXCEPT !.ctx = Apply(@),
                                  !.calls = Append(@, Call(k, a.role, a.funcs[n], acc.ctx, TRUE))])

\* action.run(ctx, cfg): the functions in order, each on the context the one
\* before returned; the first error ends it, returned with the last context
\* successfully produced.
run(a, ctx, k, failAt) ==
    runFrom(a, k, failAt, 1, [ctx |-> ctx, err |-> FALSE, calls |-> <<>>])

-----------------------------------------------------------------------------
(* Executing a feature *)

\* features.GetStepsByLevel: the steps of the level, in the order of the list.
RECURSIVE GetStepsByLevel(_, _)
GetStepsByLevel(steps, l) ==
    IF steps = <<>> THEN <<>>
    ELSE (IF Head(steps).level = l THEN <<Head(steps)>> ELSE <<>>)
             \o GetStepsByLevel(Tail(steps), l)

\* The loops over the setups and over the teardowns of execFeature: the step
\* functions run on the feature's own sub-scope, so a fatal failure of one
\* (out[fn]) ends the body of the feature.
\* acc is [ctx, calls, failed, skipped, live]; live: the body is still running.
RECURSIVE featureLevelFrom(_, _, _, _, _)
featureLevelFrom(steps, k, out, n, acc) ==
    IF ~acc.live \/ n > Len(steps) THEN acc
    ELSE LET s == steps[n] IN
         IF out[s.fn]
         THEN [acc EXCEPT !.calls = Append(@, Call(k, s.level, s.fn, acc.ctx, FALSE)),
                          !.failed = @ \cup {Scope(k, 1, 0)},
                          !.live = FALSE]
         ELSE featureLevelFrom(steps, k, out, n + 1,
                  [acc EXCEPT !.ctx = Apply(@),
                              !.calls = Append(@, Call(k, s.level, s.fn, acc.ctx, TRUE))])

\* Faulty variant of assessmentsFrom: the skip is called on the feature's
\* sub-scope, which ends the body of the feature.
RECURSIVE assessmentsSkipFeature(_, _, _, _, _, _)
assessmentsSkipFeature(steps, k, cfg, out, n, acc) ==
    IF ~acc.live \/ n > Len(steps) THEN acc
    ELSE LET s == steps[n] IN
         assessmentsSkipFeature(steps, k, cfg, out, n + 1,
             IF cfg.assessmentRegex # Nil /\ ~MatchString(cfg.assessmentRegex, s.name)
             THEN [acc EXCEPT !.skipped = @ \cup {Scope(k, 2, s.fn)}, !.live = FALSE]
             ELSE IF out[s.fn]
             THEN [acc EXCEPT !.calls = Append(@, Call(k, s.level, s.fn, acc.ctx, FALSE)),
                              !.failed = @ \cup {Scope(k, 2, s.fn)}]
             ELSE [acc EXCEPT !.ctx = Apply(@),
                              !.calls = Append(@, Call(k, s.level, s.fn, acc.ctx, TRUE))])

\* Faulty variant of assessmentsFrom: a fatal failure of an assessment is
\* reported on the feature's sub-scope and ends the body of the feature.
RECURSIVE assessmentsFatalEndsFeature(_, _, _, _, _, _)
assessmentsFatalEndsFeature(steps, k, cfg, out, n, acc) ==
    IF ~acc.live \/ n > Len(steps) THEN acc
    ELSE LET s == steps[n] IN
         assessmentsFatalEndsFeature(steps, k, cfg, out, n + 1,
             IF cfg.assessmentRegex # Nil /\ ~MatchString(cfg.assessmentRegex, s.name)
             THEN [acc EXCEPT !.skipped = @ \cup {Scope(k, 2, s.fn)}]
             ELSE IF out[s.fn]
             THEN [acc EXCEPT !.calls = Append(@, Call(k, s.level, s.fn, acc.ctx, FALSE)),
                              !.failed = @ \cup {Scope(k, 1, 0)},
                              !.live = FALSE]
             ELSE [acc EXCEPT !.ctx = Apply(@),
                              !.calls = Append(@, Call(k, s.level, s.fn, acc.ctx, TRUE))])

\* The loop over the assessments: each runs in a sub-scope of its own, which
\* is skipped when the name does not match the assessment filter; a fatal
\* failure ends that sub-scope only and leaves ctx as it was.
RECURSIVE assessmentsFrom(_, _, _, _, _, _)
assessmentsFrom(steps, k, cfg, out, n, acc) ==
    IF ~acc.live \/ n > Len(steps) THEN acc
    ELSE LET s == steps[n] IN
         assessmentsFrom(steps, k, cfg, out, n + 1,
             IF cfg.assessmentRegex # Nil /\ ~MatchString(cfg.assessmentRegex, s.name)
             THEN [acc EXCEPT !.skipped = @ \cup {Scope(k, 2, s.fn)}]
             ELSE IF out[s.fn]
             THEN [acc EXCEPT !.calls = Append(@, Call(k, s.level, s.fn, acc.ctx, FALSE)),
                              !.failed = @ \cup {Scope(k, 2, s.fn)}]
             ELSE [acc EXCEPT !.ctx = Apply(@),
                              !.calls = Append(@, Call(k, s.level, s.fn, acc.ctx, TRUE))])

\* Faulty variant of execFeature: the name mismatch is logged, not skipped.
execFeatureSkipGoesOn(ctx, k, f, cfg, out) ==
    LET start == [ctx |-> ctx, calls |-> <<>>, failed |-> {}, skipped |-> {},
                  live |-> TRUE]
        entered ==
            IF cfg.featureRegex # Nil /\ ~MatchString(cfg.featureRegex, f.name)
            THEN [start EXCEPT !.skipped = {Scope(k, 1, 0)}]
            ELSE start
        setups == featureLevelFrom(GetStepsByLevel(f.steps, LevelSetup), k, out, 1, entered)
        assessments ==
            assessmentsFrom(GetStepsByLevel(f.steps, LevelAssess), k, cfg, out, 1, setups)
        teardowns ==
            featureLevelFrom(GetStepsByLevel(f.steps, LevelTeardown), k, out, 1, assessments)
    IN  teardowns

\* Faulty variant of execFeature: the assessments run before the setups.
execFeatureAssessFirst(ctx, k, f, cfg, out) ==
    LET start == [ctx |-> ctx, calls |-> <<>>, failed |-> {}, skipped |-> {},
                  live |-> TRUE]
        entered ==
            IF cfg.featureRegex # Nil /\ ~MatchString(cfg.featureRegex, f.name)
            THEN [start EXCEPT !.skipped = {Scope(k, 1, 0)}, !.live = FALSE]
            ELSE start
        assessments ==
            assessmentsFrom(GetStepsByLevel(f.steps, LevelAssess), k, cfg, out, 1, entered)
        setups ==
            featureLevelFrom(GetStepsByLevel(f.steps, LevelSetup), k, out, 1, assessments)
        teardowns ==
            featureLevelFrom(GetStepsByLevel(f.steps, LevelTeardown), k, out, 1, setups)
    IN  teardowns

\* execFeature(ctx, t, f) in Test call k; out[fn]: step fn fails fatally.
execFeature(ctx, k, f, cfg, out) ==
    LET start == [ctx |-> ctx, calls |-> <<>>, failed |-> {}, skipped |-> {},
                  live |-> TRUE]
        entered ==
            IF cfg.featureRegex # Nil /\ ~MatchString(cfg.featureRegex, f.name)
            THEN [start EXCEPT !.skipped = {Scope(k, 1, 0)}, !.live = FALSE]
            ELSE start
        setups == featureLevelFrom(GetStepsByLevel(f.steps, LevelSetup), k, out, 1, entered)
        assessments ==
            assessmentsFrom(GetStepsByLevel(f.steps, LevelAssess), k, cfg, out, 1, setups)
        teardowns ==
            featureLevelFrom(GetStepsByLevel(f.steps, LevelTeardown), k, out, 1, assessments)
    IN  teardowns

-----------------------------------------------------------------------------
(* The state machine *)

\* The configurations a TestMain builds, and the nil *envconf.Config.
Configs ==
    { [featureRegex |-> fr, assessmentRegex |-> ar] :
          fr \in FeatureFilters, ar \in AssessFilters }
NilCfg == Nil

\* envconf.New(): a configuration without filters.
envconfNew == [featureRegex |-> Nil, assessmentRegex |-> Nil]

newTestEnv == [ctx |-> Background, cfg |-> envconfNew, actions |-> NilSlice]

New == newTestEnv

NewWithConfig(cfg) == [newTestEnv EXCEPT !.cfg = cfg]

\* NewWithContext(ctx, cfg): an environment and no error (""), or no
\* environment and an error.
NewWithContext(ctx, cfg) ==
    IF ctx = NilCtx THEN [env |-> NoEnv, err |-> "context is nil"]
    ELSE IF cfg = NilCfg THEN [env |-> NoEnv, err |-> "environment config is nil"]
    ELSE [env |-> [ctx |-> ctx, cfg |-> cfg, actions |-> NilSlice], err |-> ""]

\* The state in which TestMain holds the new environment env.
Start(env) ==
    /\ e = env
    /\ nextFn = 1
    /\ pc = "main"
    /\ batch = <<>>
    /\ i = 0
    /\ tpc = "idle"
    /\ tbatch = <<>>
    /\ j = 0
    /\ feature = NoFeature
    /\ ntests = 0
    /\ exitCode = NoCode
    /\ returned = NoCode
    /\ calls = <<>>
    /\ failed = {}
    /\ skipped = {}
    /\ size = 0
    /\ heap = <<>>
    /\ d = NoEnv
    /\ regs = [e |-> <<>>, d |-> <<>>, given |-> NilCtx]
    /\ noop = FALSE

\* TestMain built the environment with NewWithConfig.
Init == \E cfg \in Configs : Start(NewWithConfig(cfg))

\* The n function values a registration call is given: new ones.
Funcs(n) == [x \in 1..n |-> nextFn + x - 1]

RunVars == <<pc, batch, i, exitCode, returned>>
TestVars == <<tpc, tbatch, j, feature, ntests>>
History == <<calls, failed, skipped>>
DeriveVars == <<heap, d, regs>>

\* The registration history after a call that registers funcs under role.
Logged(log, role, funcs) ==
    IF Len(funcs) = 0 THEN log ELSE Append(log, Action(role, funcs))

\* TestMain calls e.Setup(funcs...).
CallSetup ==
    \E n \in 0..MaxArgs :
        /\ pc = "main"
        /\ size + n <= MaxSize
        /\ e' = Setup(e, Funcs(n)).env
        /\ heap' = Setup(e, Funcs(n)).heap
        /\ regs' = [regs EXCEPT !.e = Logged(@, roleSetup, Funcs(n))]
        /\ noop' = (n = 0)
        /\ nextFn' = nextFn + n
        /\ size' = size + n
        /\ UNCHANGED <<RunVars, TestVars, History, d>>

\* TestMain calls e.BeforeTest(funcs...).
CallBeforeTest ==
    \E n \in 0..MaxArgs :
        /\ pc = "main"
        /\ size + n <= MaxSize
        /\ e' = BeforeTest(e, Funcs(n)).env
        /\ heap' = BeforeTest(e, Funcs(n)).heap
        /\ regs' = [regs EXCEPT !.e = Logged(@, roleBefore, Funcs(n))]
        /\ noop' = (n = 0)
        /\ nextFn' = nextFn + n
        /\ size' = size + n
        /\ UNCHANGED <<RunVars, TestVars, History, d>>

\* TestMain calls e.AfterTest(funcs...).
CallAfterTest ==
    \E n \in 0..MaxArgs :
        /\ pc = "main"
        /\ size + n <= MaxSize
        /\ e' = AfterTest(e, Funcs(n)).env
        /\ heap' = AfterTest(e, Funcs(n)).heap
        /\ regs' = [regs EXCEPT !.e = Logged(@, roleAfter, Funcs(n))]
        /\ noop' = (n = 0)
        /\ nextFn' = nextFn + n
        /\ size' = size + n
        /\ UNCHANGED <<RunVars, TestVars, History, d>>

\* TestMain calls e.Finish(funcs...).
CallFinish ==
    \E n \in 0..MaxArgs :
        /\ pc = "main"
        /\ size + n <= MaxSize
        /\ e' = Finish(e, Funcs(n)).env
        /\ heap' = Finish(e, Funcs(n)).heap
        /\ regs' = [regs EXCEPT !.e = Logged(@, roleFinish, Funcs(n))]
        /\ noop' = (n = 0)
        /\ nextFn' = nextFn + n
        /\ size' = size + n
        /\ UNCHANGED <<RunVars, TestVars, History, d>>

\* The contexts WithContext is called with: nil and a context derived from
\* the background context.
CtxArgs == {NilCtx, Apply(Background)}

\* TestMain calls e.WithContext(ctx) and keeps the result in d.
CallWithContext ==
    \E ctx \in CtxArgs :
        /\ pc = "main"
        /\ d = NoEnv
        /\ IF WithContext(e, ctx).panic
           THEN /\ pc' = "panic"
                /\ UNCHANGED <<d, heap, regs>>
           ELSE /\ d' = WithContext(e, ctx).env
                /\ heap' = WithContext(e, ctx).heap
                /\ regs' = [regs EXCEPT !.d = regs.e, !.given = ctx]
                /\ UNCHANGED pc
        /\ noop' = FALSE
        /\ UNCHANGED <<e, nextFn, batch, i, exitCode, returned, TestVars, History, size>>

\* TestMain calls d.Setup(funcs...) on the derived environment.
DerivedSetup ==
    \E n \in 0..MaxArgs :
        /\ pc = "main"
        /\ d # NoEnv
        /\ size + n <= MaxSize
        /\ d' = Setup(d, Funcs(n)).env
        /\ heap' = Setup(d, Funcs(n)).heap
        /\ regs' = [regs EXCEPT !.d = Logged(@, roleSetup, Funcs(n))]
        /\ noop' = (n = 0)
        /\ nextFn' = nextFn + n
        /\ size' = size + n
        /\ UNCHANGED <<RunVars, TestVars, History, e>>

\* TestMain calls d.BeforeTest(funcs...) on the derived environment.
DerivedBeforeTest ==
    \E n \in 0..MaxArgs :
        /\ pc = "main"
        /\ d # NoEnv
        /\ size + n <= MaxSize
        /\ d' = BeforeTest(d, Funcs(n)).env
        /\ heap' = BeforeTest(d, Funcs(n)).heap
        /\ regs' = [regs EXCEPT !.d = Logged(@, roleBefore, Funcs(n))]
        /\ noop' = (n = 0)
        /\ nextFn' = nextFn + n
        /\ size' = size + n
        /\ UNCHANGED <<RunVars, TestVars, History, e>>

\* TestMain calls d.AfterTest(funcs...) on the derived environment.
DerivedAfterTest ==
    \E n \in 0..MaxArgs :
        /\ pc = "main"
        /\ d # NoEnv
        /\ size + n <= MaxSize
        /\ d' = AfterTest(d, Funcs(n)).env
        /\ heap' = AfterTest(d, Funcs(n)).heap
        /\ regs' = [regs EXCEPT !.d = Logged(@, roleAfter, Funcs(n))]
        /\ noop' = (n = 0)
        /\ nextFn' = nextFn + n
        /\ size' = size + n
        /\ UNCHANGED <<RunVars, TestVars, History, e>>

\* TestMain calls d.Finish(funcs...) on the derived environment.
DerivedFinish ==
    \E n \in 0..MaxArgs :
        /\ pc = "main"
        /\ d # NoEnv
        /\ size + n <= MaxSize
        /\ d' = Finish(d, Funcs(n)).env
        /\ heap' = Finish(d, Funcs(n)).heap
        /\ regs' = [regs EXCEPT !.d = Logged(@, roleFinish, Funcs(n))]
        /\ noop' = (n = 0)
        /\ nextFn' = nextFn + n
        /\ size' = size + n
        /\ UNCHANGED <<RunVars, TestVars, History, e>>

\* Faulty variant of RunEnter: the context is not checked.
RunEnterNoCheck ==
    /\ pc = "main"
    /\ d = NoEnv
    /\ pc' = "setup"
    /\ batch' = GetSetupActions(e)
    /\ i' = 1
    /\ noop' = FALSE
    /\ UNCHANGED <<e, nextFn, exitCode, returned, TestVars, History, size, DeriveVars>>

\* TestMain calls e.Run(m): the nil check, then setups := e.GetSetupActions().
\* Run is modelled for a TestMain that derived no second environment.
RunEnter ==
    /\ pc = "main"
    /\ d = NoEnv
    /\ IF e.ctx = NilCtx
       THEN /\ pc' = "panic"
            /\ UNCHANGED <<batch, i>>
       ELSE /\ pc' = "setup"
            /\ batch' = GetSetupActions(e)
            /\ i' = 1
    /\ noop' = FALSE
    /\ UNCHANGED <<e, nextFn, exitCode, returned, TestVars, History, size, DeriveVars>>

\* Faulty variant of RunSetup: the error is logged and the loop goes on.
RunSetupLogsError ==
    /\ pc = "setup"
    /\ i <= Len(batch)
    /\ \E failAt \in 0..Len(batch[i].funcs) :
         LET r == run(batch[i], e.ctx, 0, failAt) IN
         /\ e' = [e EXCEPT !.ctx = r.ctx]
         /\ calls' = calls \o r.calls
    /\ i' = i + 1
    /\ UNCHANGED <<nextFn, pc, batch, exitCode, returned, TestVars, failed, skipped, size, DeriveVars, noop>>

\* One iteration of Run's loop over setups; an error is fatal: log.Fatal
\* exits the process with status 1.
RunSetup ==
    /\ pc = "setup"
    /\ i <= Len(batch)
    /\ \E failAt \in 0..Len(batch[i].funcs) :
         LET r == run(batch[i], e.ctx, 0, failAt) IN
         /\ e' = [e EXCEPT !.ctx = r.ctx]
         /\ calls' = calls \o r.calls
         /\ IF r.err
            THEN /\ pc' = "exited"
                 /\ returned' = 1
                 /\ UNCHANGED i
            ELSE /\ i' = i + 1
                 /\ UNCHANGED <<pc, returned>>
    /\ UNCHANGED <<nextFn, batch, exitCode, TestVars, failed, skipped, size, DeriveVars, noop>>

\* Run calls m.Run(): the test functions of the package start.
RunTests ==
    /\ pc = "setup"
    /\ i > Len(batch)
    /\ pc' = "running"
    /\ UNCHANGED <<e, nextFn, batch, i, exitCode, returned, TestVars, History, size, DeriveVars, noop>>

\* The test functions run without e.Run: TestMain calls m.Run itself.
TestsWithoutRun ==
    /\ pc = "main"
    /\ d = NoEnv
    /\ pc' = "direct"
    /\ noop' = FALSE
    /\ UNCHANGED <<e, nextFn, batch, i, exitCode, returned, TestVars, History, size, DeriveVars>>

\* A test function calls e.Test(t, f): the nil check, then
\* befores := e.GetBeforeActions().
TestEnter ==
    /\ pc \in {"running", "direct"}
    /\ tpc = "idle"
    /\ size + 1 <= MaxSize
    /\ \E f \in Features(ntests + 1, MaxSize - size - 1) :
         /\ feature' = f
         /\ size' = size + 1 + Len(f.steps)
    /\ ntests' = ntests + 1
    /\ IF e.ctx = NilCtx
       THEN /\ pc' = "panic"
            /\ UNCHANGED <<tpc, tbatch, j>>
       ELSE /\ tpc' = "before"
            /\ tbatch' = GetBeforeActions(e)
            /\ j' = 1
            /\ UNCHANGED pc
    /\ UNCHANGED <<e, nextFn, batch, i, exitCode, returned, History, DeriveVars, noop>>

\* Faulty variant of TestBefore: the error is reported with t.Errorf, which
\* does not end the test function.
TestBeforeGoesOn ==
    /\ tpc = "before"
    /\ j <= Len(tbatch)
    /\ \E failAt \in 0..Len(tbatch[j].funcs) :
         LET r == run(tbatch[j], e.ctx, ntests, failAt) IN
         /\ e' = [e EXCEPT !.ctx = r.ctx]
         /\ calls' = calls \o r.calls
         /\ failed' = IF r.err THEN failed \cup {Scope(ntests, 0, 0)} ELSE failed
    /\ j' = j + 1
    /\ UNCHANGED <<nextFn, RunVars, tpc, tbatch, feature, ntests, skipped, size, DeriveVars, noop>>

\* Faulty variant of TestBefore: the context returned with an error is
\* dropped, the environment keeps the one it had before the action.
TestBeforeRollsBack ==
    /\ tpc = "before"
    /\ j <= Len(tbatch)
    /\ \E failAt \in 0..Len(tbatch[j].funcs) :
         LET r == run(tbatch[j], e.ctx, ntests, failAt) IN
         /\ e' = IF r.err THEN e ELSE [e EXCEPT !.ctx = r.ctx]
         /\ calls' = calls \o r.calls
         /\ IF r.err
            THEN /\ failed' = failed \cup {Scope(ntests, 0, 0)}
                 /\ tpc' = "idle"
                 /\ UNCHANGED j
            ELSE /\ j' = j + 1
                 /\ UNCHANGED <<failed, tpc>>
    /\ UNCHANGED <<nextFn, RunVars, tbatch, feature, ntests, skipped, size, DeriveVars, noop>>

\* One iteration of Test's loop over befores; an error is reported with
\* t.Fatalf, which ends the test function.
TestBefore ==
    /\ tpc = "before"
    /\ j <= Len(tbatch)
    /\ \E failAt \in 0..Len(tbatch[j].funcs) :
         LET r == run(tbatch[j], e.ctx, ntests, failAt) IN
         /\ e' = [e EXCEPT !.ctx = r.ctx]
         /\ calls' = calls \o r.calls
         /\ IF r.err
            THEN /\ failed' = failed \cup {Scope(ntests, 0, 0)}
                 /\ tpc' = "idle"
                 /\ UNCHANGED j
            ELSE /\ j' = j + 1
                 /\ UNCHANGED <<failed, tpc>>
    /\ UNCHANGED <<nextFn, RunVars, tbatch, feature, ntests, skipped, size, DeriveVars, noop>>

\* Faulty variant of TestFeature: the context execFeature returns is dropped.
TestFeatureDropsCtx ==
    /\ tpc = "before"
    /\ j > Len(tbatch)
    /\ \E out \in [1..Len(feature.steps) -> BOOLEAN] :
         LET r == execFeature(e.ctx, ntests, feature, e.cfg, out) IN
         /\ calls' = calls \o r.calls
         /\ failed' = failed \cup r.failed
         /\ skipped' = skipped \cup r.skipped
    /\ tpc' = "after"
    /\ tbatch' = GetAfterActions(e)
    /\ j' = 1
    /\ UNCHANGED <<e, nextFn, RunVars, feature, ntests, size, DeriveVars, noop>>

\* Faulty variant of TestFeature: a fatal failure on the feature's sub-scope
\* ends the test function as one on the test's own scope does.
TestFeatureFatalEndsTest ==
    /\ tpc = "before"
    /\ j > Len(tbatch)
    /\ \E out \in [1..Len(feature.steps) -> BOOLEAN] :
         LET r == execFeature(e.ctx, ntests, feature, e.cfg, out) IN
         /\ e' = [e EXCEPT !.ctx = r.ctx]
         /\ calls' = calls \o r.calls
         /\ failed' = failed \cup r.failed
         /\ skipped' = skipped \cup r.skipped
         /\ tpc' = IF Scope(ntests, 1, 0) \in r.failed THEN "idle" ELSE "after"
    /\ tbatch' = GetAfterActions(e)
    /\ j' = 1
    /\ UNCHANGED <<nextFn, RunVars, feature, ntests, size, DeriveVars, noop>>

\* e.ctx = e.execFeature(e.ctx, t, feature), then afters := e.GetAfterActions().
TestFeature ==
    /\ tpc = "before"
    /\ j > Len(tbatch)
    /\ \E out \in [1..Len(feature.steps) -> BOOLEAN] :
         LET r == execFeature(e.ctx, ntests, feature, e.cfg, out) IN
         /\ e' = [e EXCEPT !.ctx = r.ctx]
         /\ calls' = calls \o r.calls
         /\ failed' = failed \cup r.failed
         /\ skipped' = skipped \cup r.skipped
    /\ tpc' = "after"
    /\ tbatch' = GetAfterActions(e)
    /\ j' = 1
    /\ UNCHANGED <<nextFn, RunVars, feature, ntests, size, DeriveVars, noop>>

\* Faulty variant of TestAfter: the error is reported with t.Errorf, which
\* does not end the test function.
TestAfterGoesOn ==
    /\ tpc = "after"
    /\ j <= Len(tbatch)
    /\ \E failAt \in 0..Len(tbatch[j].funcs) :
         LET r == run(tbatch[j], e.ctx, ntests, failAt) IN
         /\ e' = [e EXCEPT !.ctx = r.ctx]
         /\ calls' = calls \o r.calls
         /\ failed' = IF r.err THEN failed \cup {Scope(ntests, 0, 0)} ELSE failed
    /\ j' = j + 1
    /\ UNCHANGED <<nextFn, RunVars, tpc, tbatch, feature, ntests, skipped, size, DeriveVars, noop>>

\* One iteration of Test's loop over afters; an error is reported with
\* t.Fatalf, which ends the test function.
TestAfter ==
    /\ tpc = "after"
    /\ j <= Len(tbatch)
    /\ \E failAt \in 0..Len(tbatch[j].funcs) :
         LET r == run(tbatch[j], e.ctx, ntests, failAt) IN
         /\ e' = [e EXCEPT !.ctx = r.ctx]
         /\ calls' = calls \o r.calls
         /\ IF r.err
            THEN /\ failed' = failed \cup {Scope(ntests, 0, 0)}
                 /\ tpc' = "idle"
                 /\ UNCHANGED j
            ELSE /\ j' = j + 1
                 /\ UNCHANGED <<failed, tpc>>
    /\ UNCHANGED <<nextFn, RunVars, tbatch, feature, ntests, skipped, size, DeriveVars, noop>>

\* Test returns.
TestReturn ==
    /\ tpc = "after"
    /\ j > Len(tbatch)
    /\ tpc' = "idle"
    /\ UNCHANGED <<e, nextFn, RunVars, tbatch, j, feature, ntests, History, size, DeriveVars, noop>>

\* The status m.Run returns: 1 when a test failed, 0 otherwise.
ExitStatus(fails) == IF fails = {} THEN 0 ELSE 1

\* Faulty variant of MRunReturn: a failed test run exits at once.
MRunReturnExitsOnFailure ==
    /\ pc = "running"
    /\ tpc = "idle"
    /\ exitCode' = ExitStatus(failed)
    /\ IF ExitStatus(failed) # 0
       THEN /\ pc' = "exited"
            /\ returned' = ExitStatus(failed)
            /\ UNCHANGED <<batch, i>>
       ELSE /\ pc' = "finish"
            /\ batch' = GetFinishActions(e)
            /\ i' = 1
            /\ UNCHANGED returned
    /\ UNCHANGED <<e, nextFn, TestVars, History, size, DeriveVars, noop>>

\* m.Run returns: exitCode := m.Run(), then finishes := e.GetFinishActions().
MRunReturn ==
    /\ pc = "running"
    /\ tpc = "idle"
    /\ exitCode' = ExitStatus(failed)
    /\ pc' = "finish"
    /\ batch' = GetFinishActions(e)
    /\ i' = 1
    /\ UNCHANGED <<e, nextFn, returned, TestVars, History, size, DeriveVars, noop>>

\* Faulty variant of RunFinish: an error ends the loop.
RunFinishStopsAtError ==
    /\ pc = "finish"
    /\ i <= Len(batch)
    /\ \E failAt \in 0..Len(batch[i].funcs) :
         LET r == run(batch[i], e.ctx, 0, failAt) IN
         /\ e' = [e EXCEPT !.ctx = r.ctx]
         /\ calls' = calls \o r.calls
         /\ i' = IF r.err THEN Len(batch) + 1 ELSE i + 1
    /\ UNCHANGED <<nextFn, pc, batch, exitCode, returned, TestVars, failed, skipped, size, DeriveVars, noop>>

\* One iteration of Run's loop over finishes; an error is logged.
RunFinish ==
    /\ pc = "finish"
    /\ i <= Len(batch)
    /\ \E failAt \in 0..Len(batch[i].funcs) :
         LET r == run(batch[i], e.ctx, 0, failAt) IN
         /\ e' = [e EXCEPT !.ctx = r.ctx]
         /\ calls' = calls \o r.calls
    /\ i' = i + 1
    /\ UNCHANGED <<nextFn, pc, batch, exitCode, returned, TestVars, failed, skipped, size, DeriveVars, noop>>

\* return exitCode.
RunReturn ==
    /\ pc = "finish"
    /\ i > Len(batch)
    /\ pc' = "done"
    /\ returned' = exitCode
    /\ UNCHANGED <<e, nextFn, batch, i, exitCode, TestVars, History, size, DeriveVars, noop>>

Next ==
    \/ CallSetup
    \/ CallBeforeTest
    \/ CallAfterTest
    \/ CallFinish
    \/ RunEnter
    \/ RunSetup
    \/ RunTests
    \/ TestEnter
    \/ TestBefore
    \/ TestFeature
    \/ TestAfter
    \/ TestReturn
    \/ MRunReturn
    \/ RunFinish
    \/ RunReturn

Spec == Init /\ [][Next]_vars

\* Registration and derivation only: a TestMain that builds two environments.
NextDerive ==
    \/ CallSetup
    \/ CallBeforeTest
    \/ CallAfterTest
    \/ CallFinish
    \/ CallWithContext
    \/ DerivedSetup
    \/ DerivedBeforeTest
    \/ DerivedAfterTest
    \/ DerivedFinish

\* TestMain built the environment with New.
InitDerive == Start(New)

\* All operations, on an environment that Run or the test functions get as
\* it is: one more WithContext call ends the scenario.
NextNil ==
    \/ CallSetup
    \/ CallBeforeTest
    \/ CallAfterTest
    \/ CallFinish
    \/ CallWithContext
    \/ RunEnter
    \/ RunSetup
    \/ RunTests
    \/ TestsWithoutRun
    \/ TestEnter
    \/ TestBefore
    \/ TestFeature
    \/ TestAfter
    \/ TestReturn
    \/ MRunReturn
    \/ RunFinish
    \/ RunReturn

\* A testEnv value without a context, as code of the package can build it.
noContextEnv == [ctx |-> NilCtx, cfg |-> envconfNew, actions |-> NilSlice]

\* TestMain holds an environment from NewWithConfig, one from a NewWithContext
\* call that returned no error, or one without a context.
InitNil ==
    \E env \in {NewWithConfig(cfg) : cfg \in Configs}
                \cup {NewWithContext(ctx, envconfNew).env : ctx \in CtxArgs \ {NilCtx}}
                \cup {noContextEnv} :
        Start(env)

SpecNil == InitNil /\ [][NextNil]_vars

SpecDerive == InitDerive /\ [][NextDerive]_vars

-----------------------------------------------------------------------------
(* Reading the history *)

\* The registered actions of role r, in registration order.
Registered(r) == SelectSeq(Actions(e), LAMBDA a : a.role = r)

\* The first function of each action of a list.
Heads(as) == [n \in DOMAIN as |-> as[n].funcs[1]]

\* The functions of the actions of a list, in order.
RECURSIVE AllFuncs(_)
AllFuncs(as) == IF as = <<>> THEN <<>> ELSE Head(as).funcs \o AllFuncs(Tail(as))

IsHead(fn) == \E n \in DOMAIN Actions(e) : Actions(e)[n].funcs[1] = fn

\* The functions called with role (or level) r in Test call k (0: in Run).
Called(r, k) ==
    LET cs == SelectSeq(calls, LAMBDA c : c.role = r /\ c.test = k)
    IN  [n \in DOMAIN cs |-> cs[n].fn]

\* The actions of role r started in Test call k (0: in Run), by first function.
Started(r, k) == SelectSeq(Called(r, k), IsHead)

\* Call n is a failed call of role r.
FailedCall(n, r) == calls[n].role = r /\ ~calls[n].ok

-----------------------------------------------------------------------------
(* Claims *)

\* C1: when a function of a Setup action fails, Run ends the process at once:
\* the failed call is the last call ever made (no later Setup action, no
\* Finish action), no Test call was started and m.Run never returned.
C1_SetupFailureAborts ==
    \A n \in DOMAIN calls :
        FailedCall(n, roleSetup) =>
            /\ n = Len(calls)
            /\ pc = "exited"
            /\ returned = 1
            /\ ntests = 0
            /\ exitCode = NoCode
            /\ failed = {} /\ skipped = {}

\* C1 witness: the process exited on a failed Setup action while a later
\* Setup action and a Finish action were registered.
C1_Witness ==
    /\ pc = "exited"
    /\ FailedCall(Len(calls), roleSetup)
    /\ i < Len(batch)
    /\ Registered(roleFinish) # <<>>

\* C2: in the Finish phase every Finish action is started, in registration
\* order, whether or not earlier ones failed (after i-1 iterations the first
\* i-1 Finish actions, at the return all of them), a Finish failure is
\* reported on no scope, and Run returns the status of the test run.
C2_FinishBestEffort ==
    /\ pc = "finish" =>
          /\ Started(roleFinish, 0) = SubSeq(Heads(Registered(roleFinish)), 1, i - 1)
          /\ exitCode = ExitStatus(failed)
    /\ pc = "done" =>
          /\ Started(roleFinish, 0) = Heads(Registered(roleFinish))
          /\ returned = ExitStatus(failed)
    /\ \A n \in DOMAIN calls : calls[n].role = roleFinish => calls[n].test = 0
    /\ \A s \in failed : s.test >= 1

\* C2 witness: Run returned 0 although a Finish action failed, and a later
\* Finish action ran after the failure.
C2_Witness ==
    /\ pc = "done"
    /\ returned = 0
    /\ \E n \in DOMAIN calls : \E m \in DOMAIN calls :
          /\ n < m
          /\ FailedCall(n, roleFinish)
          /\ calls[m].role = roleFinish

\* C3: when a function of a Before action fails in a Test call, nothing
\* more is called in that Test call (no later Before function or action, no
\* step of the feature, no After action), the feature's sub-scope is never
\* opened, and the failure is reported on the scope of the test.
C3_BeforeFailFast ==
    \A n \in DOMAIN calls :
        FailedCall(n, roleBefore) =>
            LET k == calls[n].test IN
            /\ k >= 1
            /\ \A m \in DOMAIN calls : m > n => calls[m].test # k
            /\ \A m \in DOMAIN calls :
                  calls[m].test = k => calls[m].role = roleBefore
            /\ Scope(k, 0, 0) \in failed
            /\ \A s \in failed \cup skipped : s.test = k => s.depth = 0
            /\ (k = ntests => tpc = "idle")

\* C3 witness: a Test call on a feature with steps ended on the failure of
\* the first of the two functions of a Before action: one call in all.
C3_Witness ==
    /\ tpc = "idle"
    /\ ntests = 1
    /\ Len(calls) = 1
    /\ FailedCall(1, roleBefore)
    /\ Len(tbatch[j].funcs) = 2
    /\ feature.steps # <<>>

\* The calls of the steps of the feature of Test call k, in order.
StepCalls(k) == SelectSeq(calls, LAMBDA c : c.test = k /\ c.role \in Levels)

\* The number of successful calls before call n.
OkBefore(n) == Cardinality({m \in 1..(n - 1) : calls[m].ok})

IsPrefix(s, t) == Len(s) <= Len(t) /\ s = SubSeq(t, 1, Len(s))

\* Test call k went past its Before actions: execFeature was called in it.
FeatureEntered(k) ==
    /\ k \in 1..ntests
    /\ k = ntests => (tpc = "after" \/ (tpc = "idle" /\ pc # "panic"))
    /\ \A n \in DOMAIN calls : ~(calls[n].test = k /\ FailedCall(n, roleBefore))

\* Test call k returned without a fatal failure of a Before or After action.
TestPassedActions(k) ==
    /\ k \in 1..ntests
    /\ k = ntests => tpc = "idle" /\ pc # "panic"
    /\ \A n \in DOMAIN calls :
          calls[n].test = k => ~FailedCall(n, roleBefore) /\ ~FailedCall(n, roleAfter)

FeatureMatches(k) ==
    e.cfg.featureRegex = Nil \/ MatchString(e.cfg.featureRegex, FeatureName(k))

AssessMatches(name) ==
    e.cfg.assessmentRegex = Nil \/ MatchString(e.cfg.assessmentRegex, name)

\* The place of a call in the lifecycle: Setup, then per Test call Before,
\* feature, After, then Finish.
Rank(c) ==
    IF c.role = roleSetup THEN 0
    ELSE IF c.role = roleFinish THEN 4 * (ntests + 1)
    ELSE 4 * c.test + (IF c.role = roleBefore THEN 1
                       ELSE IF c.role = roleAfter THEN 3 ELSE 2)

LevelRank(l) == IF l = LevelSetup THEN 1 ELSE IF l = LevelAssess THEN 2 ELSE 3

\* C4: the phase of a call follows from its role alone, whatever the order of
\* the registrations: calls are made in the order Setup, then for each Test
\* call Before, feature steps, After, then Finish (after m.Run returned);
\* the actions of one role are started in registration order; a Run that
\* returns has run every Setup function and started every Finish action
\* once, and a Test call that no Before or After action failed has run
\* every Before and After function once.
C4_PhaseOrderByRole ==
    /\ \A n \in DOMAIN calls : \A m \in DOMAIN calls :
          n < m => Rank(calls[n]) <= Rank(calls[m])
    /\ \A n \in DOMAIN calls :
          /\ calls[n].role \in {roleSetup, roleFinish} <=> calls[n].test = 0
          /\ calls[n].test \in 0..ntests
          /\ calls[n].role = roleSetup => pc # "main"
          /\ calls[n].role = roleFinish => pc \in {"finish", "done"}
    /\ \A r \in {roleSetup, roleFinish} :
          IsPrefix(Started(r, 0), Heads(Registered(r)))
    /\ \A r \in {roleBefore, roleAfter} : \A k \in 1..ntests :
          IsPrefix(Started(r, k), Heads(Registered(r)))
    /\ pc \in {"running", "finish", "done"} =>
          Called(roleSetup, 0) = AllFuncs(Registered(roleSetup))
    /\ pc = "done" => Started(roleFinish, 0) = Heads(Registered(roleFinish))
    /\ \A k \in 1..ntests :
          TestPassedActions(k) =>
              /\ Called(roleBefore, k) = AllFuncs(Registered(roleBefore))
              /\ Called(roleAfter, k) = AllFuncs(Registered(roleAfter))

\* C4 witness: registrations in the order Finish, After, Setup, and a Run
\* with one Test call that returned after calling the three functions in the
\* order Setup, After, Finish.
C4_Witness ==
    /\ pc = "done"
    /\ Len(Actions(e)) = 3
    /\ Actions(e)[1].role = roleFinish
    /\ Actions(e)[2].role = roleAfter
    /\ Actions(e)[3].role = roleSetup
    /\ ntests = 1
    /\ Len(calls) = 3
    /\ calls[1].fn = 3 /\ calls[2].fn = 2 /\ calls[3].fn = 1

\* C5: every function called receives the context the latest successful call
\* returned (the initial context when there is none), and the environment
\* holds that context: with functions mapping v to v+1, the input of call n is
\* the initial value plus the number of successful calls before it, and
\* e.ctx is the initial value plus the number of successful calls; skipped
\* features and assessments call nothing and change nothing.
C5_ContextThreading ==
    /\ \A n \in DOMAIN calls : calls[n].in = Background + OkBefore(n)
    /\ e.ctx = Background + OkBefore(Len(calls) + 1)
    /\ (pc = "done" /\ \A n \in DOMAIN calls : calls[n].ok) =>
          e.ctx = Background + Len(calls)

\* C5 witness: a failure-free Run returned after a Before function and a
\* teardown step of a feature whose assessment was skipped: the context is
\* the initial value plus 2.
C5_Witness ==
    /\ pc = "done"
    /\ \A n \in DOMAIN calls : calls[n].ok
    /\ Len(calls) = 2
    /\ calls[1].role = roleBefore
    /\ calls[2].role = LevelTeardown
    /\ calls[2].in = Background + 1
    /\ \E sc \in skipped : sc.depth = 2
    /\ e.ctx = Background + 2

\* C6: the steps of a feature are called level by level (setup, assess,
\* teardown) and within a level in the order of the step list, whatever the
\* order of the levels in the list; each step receives the context the step
\* called before it returned; and a feature that is not filtered and in which
\* no step fails has its steps called in exactly that order.
C6_LevelOrder ==
    /\ \A k \in 1..ntests :
          LET sc == StepCalls(k) IN
          /\ \A n \in DOMAIN sc : \A m \in DOMAIN sc :
                n < m =>
                    \/ LevelRank(sc[n].role) < LevelRank(sc[m].role)
                    \/ sc[n].role = sc[m].role /\ sc[n].fn < sc[m].fn
          /\ \A n \in DOMAIN sc :
                n > 1 => sc[n].in = IF sc[n - 1].ok THEN Apply(sc[n - 1].in)
                                    ELSE sc[n - 1].in
    /\ ( /\ FeatureEntered(ntests)
         /\ FeatureMatches(ntests)
         /\ e.cfg.assessmentRegex = Nil
         /\ \A sc \in failed : sc.test = ntests => sc.depth = 0 ) =>
          LET sc == StepCalls(ntests)
              byLevel == SelectSeq(feature.steps, LAMBDA st : st.level = LevelSetup)
                         \o SelectSeq(feature.steps, LAMBDA st : st.level = LevelAssess)
                         \o SelectSeq(feature.steps, LAMBDA st : st.level = LevelTeardown)
          IN  /\ Len(sc) = Len(byLevel)
              /\ \A n \in DOMAIN sc :
                    sc[n].fn = byLevel[n].fn /\ sc[n].role = byLevel[n].level

\* C6 witness: a feature whose step list is teardown, assess, setup was
\* executed as setup (step 3), assess (step 2), teardown (step 1).
C6_Witness ==
    /\ tpc = "after"
    /\ Len(feature.steps) = 3
    /\ feature.steps[1].level = LevelTeardown
    /\ feature.steps[2].level = LevelAssess
    /\ feature.steps[3].level = LevelSetup
    /\ Len(StepCalls(ntests)) = 3
    /\ StepCalls(ntests)[1].fn = 3
    /\ StepCalls(ntests)[3].fn = 1

\* Step p of the feature of the latest Test call was called.
StepCalled(p) ==
    \E n \in DOMAIN calls :
        /\ calls[n].test = ntests
        /\ calls[n].role = feature.steps[p].level
        /\ calls[n].fn = p

\* C7: with a feature filter that the name of the feature of Test call k does
\* not match, execFeature marks the feature's sub-scope skipped and calls no
\* step of the feature (nor opens a sub-scope for an assessment), while the
\* Setup and Finish actions of the environment run as in any other Run.
C7_FeatureFilterSkips ==
    /\ \A k \in 1..ntests :
          (FeatureEntered(k) /\ ~FeatureMatches(k)) =>
              /\ Scope(k, 1, 0) \in skipped
              /\ StepCalls(k) = <<>>
              /\ \A sc \in failed \cup skipped :
                    sc.test = k /\ sc.depth >= 1 => sc = Scope(k, 1, 0)
    /\ \A sc \in skipped : sc.depth = 1 => ~FeatureMatches(sc.test)
    /\ (pc = "done" /\ \E sc \in skipped : sc.depth = 1) =>
          /\ Called(roleSetup, 0) = AllFuncs(Registered(roleSetup))
          /\ Started(roleFinish, 0) = Heads(Registered(roleFinish))
          /\ returned = ExitStatus(failed)

\* C7 witness: Run returned after a Setup function, a Test call on a feature
\* with a step that was skipped by the feature filter, and a Finish function:
\* two calls in all.
C7_Witness ==
    /\ pc = "done"
    /\ ntests = 1
    /\ Len(feature.steps) = 1
    /\ Scope(1, 1, 0) \in skipped
    /\ Len(calls) = 2
    /\ calls[1].role = roleSetup
    /\ calls[2].role = roleFinish

\* C8: in a feature that is executed (not filtered out, no setup or teardown
\* step failing fatally), the function of an assess step is called if and
\* only if there is no assessment filter or its name matches it, its
\* sub-scope being marked skipped exactly when it is not called, and every
\* setup and teardown step is called whatever its name; in any case a
\* skipped assessment is never called and only a non-matching one is skipped.
C8_AssessmentFilter ==
    /\ ( /\ FeatureEntered(ntests)
         /\ FeatureMatches(ntests)
         /\ Scope(ntests, 1, 0) \notin failed ) =>
          \A p \in DOMAIN feature.steps :
              IF feature.steps[p].level = LevelAssess
              THEN /\ StepCalled(p) <=> AssessMatches(feature.steps[p].name)
                   /\ Scope(ntests, 2, p) \in skipped <=> ~StepCalled(p)
              ELSE StepCalled(p)
    /\ \A sc \in skipped :
          sc.depth = 2 =>
              /\ ~AssessMatches(StepName(sc.step))
              /\ \A n \in DOMAIN calls :
                    ~(calls[n].test = sc.test /\ calls[n].role = LevelAssess
                      /\ calls[n].fn = sc.step)

\* C8 witness: with an assessment filter, a feature with the steps assess
\* (not matching), assess (matching), teardown (not matching) was executed:
\* the first is skipped, the other two are called.
C8_Witness ==
    /\ tpc = "after"
    /\ e.cfg.assessmentRegex # Nil
    /\ Len(feature.steps) = 3
    /\ feature.steps[1].level = LevelAssess
    /\ feature.steps[2].level = LevelAssess
    /\ feature.steps[3].level = LevelTeardown
    /\ ~AssessMatches(feature.steps[3].name)
    /\ Scope(ntests, 2, 1) \in skipped
    /\ StepCalled(2)
    /\ StepCalled(3)

\* C9: the only way Run ends without its Finish phase is a failed Setup
\* action; once m.Run is called, whatever the Test calls did (failed in a
\* Before or After action, in a step, or were skipped) m.Run can return and
\* the Finish loop can go on, and when Run returns every Finish action has
\* been started and the value returned is the status of the test run, zero
\* or not.
C9_FinishAfterAnyOutcome ==
    /\ pc = "exited" => calls # <<>> /\ FailedCall(Len(calls), roleSetup)
    /\ (pc = "running" /\ tpc = "idle") => ENABLED MRunReturn
    /\ (pc = "running" /\ tpc # "idle") =>
          ENABLED (TestBefore \/ TestFeature \/ TestAfter \/ TestReturn)
    /\ pc = "finish" => ENABLED (RunFinish \/ RunReturn)
    /\ pc \in {"finish", "done"} =>
          exitCode = (IF \E sc \in failed : sc.test >= 1 THEN 1 ELSE 0)
    /\ pc = "done" =>
          /\ returned = exitCode
          /\ \A n \in DOMAIN Actions(e) :
                Actions(e)[n].role = roleFinish =>
                    \E m \in DOMAIN calls :
                        calls[m].role = roleFinish /\ calls[m].fn = Actions(e)[n].funcs[1]

\* C9 witness: Run returned 1 after a Test call that failed in a Before
\* action, and the Finish action was run after that failure.
C9_Witness ==
    /\ pc = "done"
    /\ returned = 1
    /\ Len(calls) = 2
    /\ FailedCall(1, roleBefore)
    /\ calls[2].role = roleFinish

\* C10: when a function of an After action fails in a Test call, nothing
\* more is called in that Test call (no later After function or action), the
\* failure is reported on the scope of the test, and what the feature did is
\* kept: the calls of its steps stay before the failed call, which received
\* the context they produced, and the environment's context is never less.
C10_AfterFailFast ==
    \A n \in DOMAIN calls :
        FailedCall(n, roleAfter) =>
            LET k == calls[n].test IN
            /\ k >= 1
            /\ \A m \in DOMAIN calls : m > n => calls[m].test # k
            /\ Scope(k, 0, 0) \in failed
            /\ (k = ntests => tpc = "idle")
            /\ FeatureEntered(k)
            /\ \A m \in DOMAIN calls :
                  (calls[m].test = k /\ calls[m].role \in Levels /\ calls[m].ok) =>
                      m < n /\ calls[n].in > calls[m].in
            /\ e.ctx >= calls[n].in

\* C10 witness: a Test call ended on the failure of an After action that
\* followed a successful step of the feature, with a later After action
\* registered that was not run.
C10_Witness ==
    /\ tpc = "idle"
    /\ ntests = 1
    /\ Len(calls) = 2
    /\ calls[1].role \in Levels /\ calls[1].ok
    /\ FailedCall(2, roleAfter)
    /\ j < Len(tbatch)

-----------------------------------------------------------------------------
\* C11: WithContext never aliases the action list of its receiver.  The
\* derived environment has a backing array of its own, the context of the
\* original is untouched, and whatever is registered before and after the
\* derivation, the action list of each environment holds exactly the actions
\* registered on it (for the derived one: on the original before the
\* derivation, on itself after it), so no registration on one shows in the
\* other.
C11_NoAliasing ==
    /\ e.ctx = Background
    /\ Actions(e) = regs.e
    /\ d # NoEnv =>
          /\ Actions(d) = regs.d
          /\ d.actions # NilSlice => d.actions.arr # e.actions.arr

\* Both environments registered after the derivation and differ from there.
C11_Witness ==
    /\ d # NoEnv
    /\ Len(regs.e) = 2
    /\ Len(regs.d) = 2
    /\ regs.e[1] = regs.d[1]
    /\ regs.e[2] # regs.d[2]
    /\ Actions(e)[2].funcs[1] > Actions(d)[2].funcs[1]

-----------------------------------------------------------------------------
Roles == {roleSetup, roleBefore, roleAfter, roleFinish}

\* C12: round trip through WithContext.  The step that derives an environment
\* from e with a non-nil context yields an environment that carries exactly
\* the context given and the configuration of e, and whose actions of every
\* role, as getActionsByRole returns them, are the same ordered sequence as
\* those of e.
C12_WithContextRoundTrip ==
    [][(d = NoEnv /\ d' # NoEnv) =>
          /\ d'.ctx = regs'.given
          /\ d'.ctx # NilCtx
          /\ d'.cfg = e.cfg
          /\ \A r \in Roles : getActionsByRole(d, r)' = getActionsByRole(e, r)]_vars

\* An environment derived from one that holds actions of two roles, under a
\* context that differs from the original's.
C12_Witness ==
    /\ d # NoEnv
    /\ d.ctx = regs.given
    /\ d.ctx # e.ctx
    /\ Len(GetSetupActions(d)) = 1
    /\ Len(GetFinishActions(d)) = 2
    /\ Actions(d) = Actions(e)

-----------------------------------------------------------------------------
\* The last element of a non-empty sequence.
Last(s) == s[Len(s)]

\* C13: a registration call with one or more functions appends exactly one
\* action.  On every step in which a call registers an action a (the role of
\* the operation called, the functions given in order) on an environment,
\* the action list of that environment becomes the old list followed by a,
\* so that every earlier action keeps its position, role and functions, the
\* actions of the role of a become the old ones followed by a, the actions
\* of the other roles stay what they were, and the context and the
\* configuration are not touched.
C13_RegistrationAppends ==
    [][/\ Len(regs'.e) = Len(regs.e) + 1 =>
            /\ Len(Last(regs'.e).funcs) >= 1
            /\ Actions(e)' = Append(Actions(e), Last(regs'.e))
            /\ e'.ctx = e.ctx /\ e'.cfg = e.cfg
            /\ \A r \in Roles :
                  getActionsByRole(e, r)' =
                      IF r = Last(regs'.e).role
                      THEN Append(getActionsByRole(e, r), Last(regs'.e))
                      ELSE getActionsByRole(e, r)
       /\ (d # NoEnv /\ Len(regs'.d) = Len(regs.d) + 1) =>
            /\ Len(Last(regs'.d).funcs) >= 1
            /\ Actions(d)' = Append(Actions(d), Last(regs'.d))
            /\ d'.ctx = d.ctx /\ d'.cfg = d.cfg
            /\ \A r \in Roles :
                  getActionsByRole(d, r)' =
                      IF r = Last(regs'.d).role
                      THEN Append(getActionsByRole(d, r), Last(regs'.d))
                      ELSE getActionsByRole(d, r)]_vars

\* A second action of a role, of two functions, registered after an action
\* of another role.
C13_Witness ==
    /\ Len(Actions(e)) = 3
    /\ Actions(e)[1].role = roleAfter
    /\ Actions(e)[2].role = roleSetup
    /\ Actions(e)[3] = Action(roleAfter, <<3, 4>>)
    /\ GetAfterActions(e) = <<Actions(e)[1], Actions(e)[3]>>

-----------------------------------------------------------------------------
\* The elements of a list of actions whose role is r, in the order of the list.
OfRole(as, r) == SelectSeq(as, LAMBDA a : a.role = r)

\* C14: after any sequence of registrations, on the original and on the
\* derived environment, the retrieval of a role returns exactly the actions
\* of the action list that have that role, in the order in which they were
\* registered, and nothing when no action of the role was registered.
\* (Retrieval assigns nothing: getActionsByRole is a function of the list.)
C14_RetrievalByRole ==
    \A r \in Roles :
        /\ getActionsByRole(e, r) = OfRole(Actions(e), r)
        /\ getActionsByRole(e, r) = OfRole(regs.e, r)
        /\ OfRole(regs.e, r) = <<>> => getActionsByRole(e, r) = <<>>
        /\ d # NoEnv =>
              /\ getActionsByRole(d, r) = OfRole(Actions(d), r)
              /\ getActionsByRole(d, r) = OfRole(regs.d, r)

\* Two actions of one role around an action of another, a role without any.
C14_Witness ==
    /\ Len(Actions(e)) = 3
    /\ GetBeforeActions(e) = <<Actions(e)[1], Actions(e)[3]>>
    /\ GetSetupActions(e) = <<Actions(e)[2]>>
    /\ GetFinishActions(e) = <<>>
    /\ GetAfterActions(e) = <<>>
    /\ Len(Actions(e)[1].funcs) = 2

-----------------------------------------------------------------------------
\* C15: a registration call with zero functions is a no-op.  A step that is
\* such a call, on either environment, leaves both environments (context,
\* configuration, action slice), the backing arrays and so the contents of
\* the action lists as they were, and the environment returned is the
\* receiver; and no action without functions is ever in an action list.
C15_EmptyRegistrationNoOp ==
    /\ [](/\ \A n \in DOMAIN Actions(e) : Len(Actions(e)[n].funcs) >= 1
          /\ \A n \in DOMAIN Actions(d) : Len(Actions(d)[n].funcs) >= 1
          /\ Setup(e, <<>>).env = e /\ BeforeTest(e, <<>>).env = e
          /\ AfterTest(e, <<>>).env = e /\ Finish(e, <<>>).env = e)
    /\ [][noop' => /\ e' = e
                   /\ d' = d
                   /\ heap' = heap
                   /\ Actions(e)' = Actions(e)
                   /\ Actions(d)' = Actions(d)]_vars

\* A registration of zero functions was the latest call, on environments
\* that hold actions.
C15_Witness ==
    /\ noop
    /\ d # NoEnv
    /\ Len(Actions(e)) = 2
    /\ Len(Actions(d)) = 1

-----------------------------------------------------------------------------
\* C16: the setup-level and teardown-level steps of a feature run at the
\* reporting-scope level of the test that invoked Test, not inside a nested
\* sub-scope, and each assessment runs in a sub-scope of the feature: a
\* fatal failure of a setup or teardown step is reported on the scope of the
\* test and not on the feature's sub-scope, and a fatal failure of an
\* assessment is reported on the sub-scope of that assessment.
\* The code runs all three levels inside t.Run(featName, ...), so this fails.
C16_SetupTeardownAtTestLevel ==
    \A n \in DOMAIN calls :
        ~calls[n].ok =>
            /\ calls[n].role \in {LevelSetup, LevelTeardown} =>
                  /\ Scope(calls[n].test, 0, 0) \in failed
                  /\ Scope(calls[n].test, 1, 0) \notin failed
            /\ calls[n].role = LevelAssess =>
                  Scope(calls[n].test, 2, calls[n].fn) \in failed

-----------------------------------------------------------------------------
\* C17: a nil context is handled before any work.  While the environment has
\* no context no user function is ever called: Run and Test entered with it
\* panic at once, with no action started; the WithContext call that is given
\* nil panics, yields no environment and leaves the original and the heap
\* as they were, like every panicking step; after a panic nothing runs; and
\* NewWithContext returns an error and no environment exactly when the
\* context or the configuration is nil.
C17_NilContextRejected ==
    /\ [](/\ e.ctx = NilCtx =>
                /\ calls = <<>>
                /\ pc \in {"main", "direct", "panic"}
                /\ tpc = "idle"
          /\ pc = "panic" => calls = <<>> /\ tpc = "idle" /\ ~ENABLED NextNil
          /\ WithContext(e, NilCtx) = [panic |-> TRUE, env |-> NoEnv, heap |-> heap]
          /\ \A ctx \in CtxArgs, cfg \in Configs \cup {NilCfg} :
                /\ NewWithContext(ctx, cfg).err # "" <=> (ctx = NilCtx \/ cfg = NilCfg)
                /\ NewWithContext(ctx, cfg).err # "" => NewWithContext(ctx, cfg).env = NoEnv
                /\ NewWithContext(ctx, cfg).err = "" =>
                      NewWithContext(ctx, cfg).env = [ctx |-> ctx, cfg |-> cfg, actions |-> NilSlice])
    /\ [][pc' = "panic" =>
             /\ e' = e /\ d' = d /\ heap' = heap /\ calls' = calls
             /\ (e.ctx # NilCtx => pc = "main" /\ d = NoEnv)]_vars

\* Test was entered, without Run, on an environment that has no context and
\* holds a Before action: it panicked.
C17_Witness ==
    /\ pc = "panic"
    /\ e.ctx = NilCtx
    /\ ntests = 1
    /\ GetBeforeActions(e) # <<>>
    /\ calls = <<>>

-----------------------------------------------------------------------------
\* C18: partial progress is kept on failure.  When a function of a Before,
\* After or Finish action fails, the context of the environment becomes the
\* one returned with the error, the last one successfully produced: the
\* input of the failed call, which counts every successful call made before
\* it (those of the same action and of earlier actions) and is never nil.
\* It is the context of the environment until the next call is made, and
\* the context that next call receives: the first function of the next
\* Finish action after a failed Finish call, a call of a later Test call (or
\* of a Finish action) after a failed Before or After call.
C18_PartialProgressKept ==
    \A n \in DOMAIN calls :
        (~calls[n].ok /\ calls[n].role \in {roleBefore, roleAfter, roleFinish}) =>
            /\ calls[n].in # NilCtx
            /\ calls[n].in = Background + OkBefore(n)
            /\ n = Len(calls) => e.ctx = calls[n].in
            /\ n < Len(calls) =>
                  /\ calls[n + 1].in = calls[n].in
                  /\ calls[n].role = roleFinish =>
                        calls[n + 1].role = roleFinish /\ IsHead(calls[n + 1].fn)
                  /\ calls[n].role # roleFinish =>
                        \/ calls[n + 1].role = roleFinish
                        \/ calls[n + 1].test > calls[n].test

\* The second function of a Before action failed in the first Test call and
\* the second Test call started from the context the first function made.
C18_Witness ==
    /\ Len(calls) = 3
    /\ calls[1].role = roleBefore /\ calls[1].ok /\ calls[1].test = 1
    /\ calls[2].role = roleBefore /\ ~calls[2].ok /\ calls[2].test = 1
    /\ calls[3].role = roleBefore /\ calls[3].test = 2
    /\ calls[3].in = Background + 1

-----------------------------------------------------------------------------
\* Test call k is over: it returned or was ended by a fatal failure.
TestOver(k) == k < ntests \/ (k = ntests /\ tpc = "idle" /\ pc # "panic")

-----------------------------------------------------------------------------
\* A setup-level or teardown-level step failed fatally in Test call k.
FeatureFatal(k) ==
    \E n \in DOMAIN calls :
        /\ calls[n].test = k
        /\ calls[n].role \in {LevelSetup, LevelTeardown}
        /\ ~calls[n].ok

====
